---- MODULE Spec2Model ----
(***************************************************************************)
(* State-machine model of script.js: the landing page components (Navbar,  *)
(* MobileMenu, Carousel behind ProductManager, LanguageManager,            *)
(* RegistrationForm) and the AdminDashboard.  Each component owns its own  *)
(* part of the DOM, so each gets a specification of its own over the       *)
(* shared variable list; the other components' variables stay fixed.       *)
(***************************************************************************)
EXTENDS Integers, Sequences, FiniteSets, TLC

VARIABLES
    \* Navbar
    scrollY, glassNav,
    \* MobileMenu: classList membership, plus the page's initial membership and last event
    toggleActive, menuActive, noScroll, menuStart, menuLast,
    \* ProductManager / Carousel
    pmState, slideCount, currentIndex, transform, trail,
    \* LanguageManager and the document it rewrites; langPrev1 / langPrev2 are the
    \* snapshots taken before the last and the last-but-one toggleLanguage call
    currentLang, docDir, docLang, elems, langPrev1, langPrev2,
    \* RegistrationForm: the field values, the submit button, the handleSubmit calls
    \* made so far (each with its position and what it saw) and the alerts shown
    formValues, btnDisabled, btnLabel, calls, alerts,
    \* AdminDashboard: the leads as the server holds them, the table body (its kind,
    \* its rows, the GET it was rendered from), the PATCH and GET requests made so far
    \* and the alerts shown; changeLimit is how many status changes the user of this
    \* session makes at most
    serverLeads, tableKind, rows, tableFrom, patches, gets, adminAlerts, changeLimit

headerVars == <<scrollY, glassNav, toggleActive, menuActive, noScroll, menuStart, menuLast>>
carouselVars == <<pmState, slideCount, currentIndex, transform, trail>>
langVars == <<currentLang, docDir, docLang, elems, langPrev1, langPrev2>>
formVars == <<formValues, btnDisabled, btnLabel, calls, alerts>>
adminVars == <<serverLeads, tableKind, rows, tableFrom, patches, gets, adminAlerts,
               changeLimit>>
vars == <<headerVars, carouselVars, langVars, formVars, adminVars>>

(***************************************************************************)
(* Bounds                                                                  *)
(***************************************************************************)
MaxSlides == 5
MaxLinks == 2
MaxElems == 1
MaxSubmits == 2
MaxLeads == 2
MaxListChanges == 1
MaxRaceLeads == 1
MaxChanges == 2

(***************************************************************************)
(* Navbar                                                                  *)
(***************************************************************************)
ScrollThreshold == 50

ScrollOffsets == {0, ScrollThreshold, ScrollThreshold + 1, 2 * ScrollThreshold}

\* handleScroll: add the class above the threshold, remove it otherwise
GlassAfterScroll(y) == y > ScrollThreshold

HandleScroll ==
    /\ \E y \in ScrollOffsets :
        /\ scrollY' = y
        /\ glassNav' = GlassAfterScroll(y)
    /\ UNCHANGED <<toggleActive, menuActive, noScroll, menuStart, menuLast>>
    /\ UNCHANGED <<carouselVars, langVars, formVars, adminVars>>

(***************************************************************************)
(* MobileMenu                                                              *)
(***************************************************************************)
\* faulty variant: the class is left as it was
ClassListRemove_Kept(present) == present

\* classList.remove(c): membership afterwards
ClassListRemove(present) == FALSE

\* classList.toggle(c): membership afterwards
ClassListToggle(present) == ~present

ToggleClick ==
    /\ toggleActive' = ClassListToggle(toggleActive)
    /\ menuActive' = ClassListToggle(menuActive)
    /\ noScroll' = ClassListToggle(noScroll)
    /\ menuLast' = "toggle"
    /\ UNCHANGED <<scrollY, glassNav, menuStart>>
    /\ UNCHANGED <<carouselVars, langVars, formVars, adminVars>>

LinkClick ==
    /\ \E link \in 1..MaxLinks :
        /\ toggleActive' = ClassListRemove(toggleActive)
        /\ menuActive' = ClassListRemove(menuActive)
        /\ noScroll' = ClassListRemove(noScroll)
        /\ menuLast' = "link"
    /\ UNCHANGED <<scrollY, glassNav, menuStart>>
    /\ UNCHANGED <<carouselVars, langVars, formVars, adminVars>>

HeaderIdle ==
    /\ scrollY = 0 /\ glassNav = FALSE
    /\ toggleActive = FALSE /\ menuActive = FALSE /\ noScroll = FALSE
    /\ menuStart = <<FALSE, FALSE, FALSE>> /\ menuLast = "none"

CarouselIdle ==
    /\ pmState = "loading" /\ slideCount = 0 /\ currentIndex = 0
    /\ transform = <<>> /\ trail = <<>>

LangIdle ==
    /\ currentLang = "en" /\ docDir = "" /\ docLang = ""
    /\ elems = <<>> /\ langPrev1 = <<>> /\ langPrev2 = <<>>

FormDefaults == [name |-> "", email |-> "", phone |-> ""]

FormIdle ==
    /\ formValues = FormDefaults /\ btnDisabled = FALSE /\ btnLabel = "Subscribe"
    /\ calls = <<>> /\ alerts = <<>>

\* a page without the leads table: the AdminDashboard constructor does nothing
AdminIdle ==
    /\ serverLeads = <<>> /\ tableKind = "markup" /\ rows = <<>> /\ tableFrom = 0
    /\ patches = <<>> /\ gets = <<>> /\ adminAlerts = 0 /\ changeLimit = 0


\* The markup decides which classes the page starts with.
InitHeader ==
    /\ scrollY = 0
    /\ glassNav \in BOOLEAN
    /\ toggleActive \in BOOLEAN
    /\ menuActive \in BOOLEAN
    /\ noScroll \in BOOLEAN
    /\ menuStart = <<toggleActive, menuActive, noScroll>>
    /\ menuLast = "none"
    /\ CarouselIdle /\ LangIdle /\ FormIdle /\ AdminIdle

NextHeader == HandleScroll \/ ToggleClick \/ LinkClick

SpecHeader == InitHeader /\ [][NextHeader]_vars

\* C9: starting from a page where the three classes (button 'active', panel 'active',
\* body 'no-scroll') are all absent, after any sequence of toggle-button and menu-link
\* clicks they are all present or all absent; and a menu-link click always leaves all
\* three absent.
C9_MenuLockstep ==
    /\ menuStart = <<FALSE, FALSE, FALSE>> =>
          (toggleActive = menuActive /\ menuActive = noScroll)
    /\ menuLast = "link" => (~toggleActive /\ ~menuActive /\ ~noScroll)

\* the menu was opened by a toggle click on a page that started with the classes absent
C9_Witness ==
    /\ menuStart = <<FALSE, FALSE, FALSE>>
    /\ menuLast = "toggle"
    /\ toggleActive /\ menuActive /\ noScroll

(***************************************************************************)
(* ProductManager and Carousel                                             *)
(***************************************************************************)
\* JavaScript %: the result takes the sign of the dividend
JsRem(a, n) == IF a >= 0 THEN a % n ELSE -((-a) % n)

\* faulty variant: the slide count is not added before the remainder
MoveIndex_NoWrap(index, direction, count) == JsRem(index + direction, count)

\* moveSlide: the new index
MoveIndex(index, direction, count) == JsRem(index + direction + count, count)

\* faulty variant: the track is translated the wrong way
Amount_Positive(index) == index * 100

\* moveSlide: the translateX percentage
Amount(index) == index * (-100)

Directions == {1, -1}

\* ProductManager.init, response parsed: one slide per product, then new Carousel
ProductsLoaded ==
    /\ pmState = "loading"
    /\ \E n \in 0..MaxSlides :
        /\ slideCount' = n
    /\ pmState' = "ready"
    /\ currentIndex' = 0
    /\ UNCHANGED <<transform, trail>>
    /\ UNCHANGED <<headerVars, langVars, formVars, adminVars>>

\* ProductManager.init, fetch or json() rejected: static message, no Carousel
ProductsFailed ==
    /\ pmState = "loading"
    /\ pmState' = "failed"
    /\ UNCHANGED <<slideCount, currentIndex, transform, trail>>
    /\ UNCHANGED <<headerVars, langVars, formVars, adminVars>>

\* the last (at most n) entries of a sequence
LastN(s, n) == IF Len(s) <= n THEN s ELSE SubSeq(s, Len(s) - n + 1, Len(s))

\* click on .next / .prev -> moveSlide(direction).  trail is the call history: the last
\* slideCount calls (the last one when there are no slides), each with its direction
\* and the index it started from.
MoveSlide(direction) ==
    /\ pmState = "ready"
    /\ trail' = LastN(Append(trail, [dir |-> direction, from |-> currentIndex]),
                      IF slideCount = 0 THEN 1 ELSE slideCount)
    /\ IF slideCount = 0
         THEN UNCHANGED <<currentIndex, transform>>
         ELSE /\ currentIndex' = MoveIndex(currentIndex, direction, slideCount)
              /\ transform' = <<Amount(currentIndex')>>
    /\ UNCHANGED <<pmState, slideCount>>
    /\ UNCHANGED <<headerVars, langVars, formVars, adminVars>>

InitCarousel == HeaderIdle /\ CarouselIdle /\ LangIdle /\ FormIdle /\ AdminIdle

NextCarousel ==
    \/ ProductsLoaded
    \/ ProductsFailed
    \/ \E d \in Directions : MoveSlide(d)

SpecCarousel == InitCarousel /\ [][NextCarousel]_vars

\* the last n calls of the history all went in direction d
SameDirectionRun(n, d) ==
    /\ Len(trail) >= n
    /\ \A k \in (Len(trail) - n + 1)..Len(trail) : trail[k].dir = d

\* C1: for a Carousel with at least one slide, started at index 0, after any sequence
\* of moveSlide(+1) / moveSlide(-1) calls the index lies in [0, count) and the track
\* translation is -100 * currentIndex percent (before the first call the index is 0 and
\* no translation has been written).
C1_IndexInRange ==
    (pmState = "ready" /\ slideCount >= 1) =>
        /\ 0 <= currentIndex /\ currentIndex < slideCount
        /\ IF trail = <<>>
             THEN currentIndex = 0 /\ transform = <<>>
             ELSE transform = <<(-100) * currentIndex>>

\* moveSlide(-1) from index 0 wrapped to the last slide
C1_Witness ==
    /\ pmState = "ready" /\ slideCount >= 2
    /\ trail # <<>>
    /\ trail[Len(trail)] = [dir |-> -1, from |-> 0]
    /\ currentIndex = slideCount - 1

\* C2: for every slide count n >= 0, direction d and reachable index i, n calls of
\* moveSlide(d) in a row lead back to i; with no slides moveSlide changes nothing.
C2_FullCycle ==
    pmState = "ready" =>
        IF slideCount = 0
          THEN currentIndex = 0 /\ transform = <<>>
          ELSE \A d \in Directions :
                 SameDirectionRun(slideCount, d) =>
                     currentIndex = trail[Len(trail) - slideCount + 1].from

\* a full backward cycle that started at a middle slide
C2_Witness ==
    /\ pmState = "ready" /\ slideCount >= 3
    /\ SameDirectionRun(slideCount, -1)
    /\ trail[1].from = 1
    /\ currentIndex = 1

\* moveSlide was called on a carousel without slides
C2_WitnessEmpty == pmState = "ready" /\ slideCount = 0 /\ trail # <<>>

(***************************************************************************)
(* LanguageManager                                                         *)
(*                                                                         *)
(* A dictionary string is a sequence of pieces: text, or the markup        *)
(* "<br />".  Element content is the DOM the browser builds from it.  The  *)
(* dictionaries are cut down to one key of each kind (markup content, a    *)
(* placeholder, the toggle label); the Hebrew strings are written in ASCII.*)
(***************************************************************************)
Langs == {"en", "he"}

DictKeys == {"hero_title", "footer_name", "lang_btn"}

translations ==
    [en |-> [hero_title  |-> <<"Control Light.", "<br />", "Master Atmosphere.">>,
             footer_name |-> <<"Full Name">>,
             lang_btn    |-> <<"HE">>],
     he |-> [hero_title  |-> <<"he: Control Light.", "<br />", "he: Master Atmosphere.">>,
             footer_name |-> <<"he: Full Name">>,
             lang_btn    |-> <<"EN">>]]

\* a property every object inherits from Object.prototype
ProtoKeys == {"constructor"}

NoAttr == "<no data-i18n>"

ElemKeys == DictKeys \cup ProtoKeys \cup {"no_such_key", NoAttr}

Tags == {"INPUT", "TEXTAREA", "H1"}

\* translations[lang][key]; <<>> stands for undefined
Lookup(lang, key) ==
    IF key \in DictKeys THEN translations[lang][key]
    ELSE IF key \in ProtoKeys THEN <<"function Object() { [native code] }">>
    ELSE <<>>

Truthy(v) == v # <<>>

\* el.innerHTML = markup: the child nodes the parser builds
ParseHTML(markup) ==
    [i \in DOMAIN markup |->
        IF markup[i] = "<br />" THEN [node |-> "br", data |-> ""]
                                ELSE [node |-> "text", data |-> markup[i]]]

\* el.textContent = text: one text node holding the string as it is
TextNodes(text) == [i \in DOMAIN text |-> [node |-> "text", data |-> text[i]]]

\* faulty variant: the locale never flips back
NextLang_Stuck(lang) == "he"

\* toggleLanguage: the new locale
NextLang(lang) == IF lang = "en" THEN "he" ELSE "en"

\* toggleLanguage: document.documentElement.dir
DirFor(lang) == IF lang = "he" THEN "rtl" ELSE "ltr"

\* toggleLanguage, the forEach over [data-i18n], then the forEach over .lang-toggle
TranslateElem(el, lang) ==
    LET t == Lookup(lang, el.key)
        bound == IF el.key # NoAttr /\ Truthy(t)
                   THEN IF el.tag = "INPUT" \/ el.tag = "TEXTAREA"
                          THEN [el EXCEPT !.placeholder = t]
                          ELSE [el EXCEPT !.content = ParseHTML(t)]
                   ELSE el
    IN  IF el.isToggle
          THEN [bound EXCEPT !.content = TextNodes(translations[lang].lang_btn)]
          ELSE bound

Page == [dir |-> docDir, lang |-> docLang, elems |-> elems]

\* what the body of toggleLanguage leaves of a page once the locale is lang
Render(page, lang) ==
    [dir   |-> DirFor(lang),
     lang  |-> lang,
     elems |-> [i \in DOMAIN page.elems |-> TranslateElem(page.elems[i], lang)]]

ToggleLanguage ==
    /\ currentLang' = NextLang(currentLang)
    /\ LET after == Render(Page, currentLang')
       IN  /\ docDir' = after.dir
           /\ docLang' = after.lang
           /\ elems' = after.elems
    /\ langPrev1' = <<[page |-> Page, cur |-> currentLang]>>
    /\ langPrev2' = langPrev1
    /\ UNCHANGED <<headerVars, carouselVars, formVars, adminVars>>

\* what the markup may hold for an element before any script ran
InitialContents(key) ==
    {ParseHTML(<<"Welcome">>)} \cup
    (IF key \in DictKeys THEN {ParseHTML(translations.en[key])} ELSE {})

InitialPlaceholders(key) ==
    {<<>>} \cup (IF key \in DictKeys THEN {translations.en[key]} ELSE {})

InitialElems ==
    UNION {[tag : {t}, key : {k}, isToggle : BOOLEAN,
            content : InitialContents(k), placeholder : InitialPlaceholders(k)] :
           t \in Tags, k \in ElemKeys}

InitLang ==
    /\ HeaderIdle /\ CarouselIdle /\ FormIdle /\ AdminIdle
    /\ currentLang = "en"
    /\ docDir \in {"", "ltr", "rtl"}
    /\ docLang \in {"", "en"}
    /\ \E n \in 1..MaxElems : elems \in [1..n -> InitialElems]
    /\ langPrev1 = <<>>
    /\ langPrev2 = <<>>

NextLangSpec == ToggleLanguage

SpecLang == InitLang /\ [][NextLangSpec]_vars

\* a snapshot whose page already showed the locale the manager held
ShowsItsLocale(snap) == Render(snap.page, snap.cur) = snap.page

\* C3 as stated: two toggleLanguage calls in a row return every bound element, the
\* document direction and the document language to the values they had before the
\* first call, whatever the page looked like.
C3_RoundTripAnyPage ==
    langPrev2 # <<>> => Page = langPrev2[1].page

\* C3 amended: two toggleLanguage calls in a row return every bound element, the
\* document direction and the document language to the values they had before the
\* first call, provided the page then showed the manager's current locale.
C3_RoundTripFromLocale ==
    (langPrev2 # <<>> /\ ShowsItsLocale(langPrev2[1])) => Page = langPrev2[1].page

\* two toggles from an English page with a bound heading: the heading went through
\* Hebrew and is English again
C3_Witness ==
    /\ langPrev2 # <<>> /\ langPrev1 # <<>>
    /\ ShowsItsLocale(langPrev2[1])
    /\ langPrev2[1].cur = "en"
    /\ \E i \in DOMAIN elems :
          /\ elems[i].tag = "H1" /\ elems[i].key = "hero_title"
          /\ langPrev1[1].page.elems[i].content = ParseHTML(translations.he.hero_title)
          /\ elems[i].content = ParseHTML(translations.en.hero_title)
    /\ docDir = "ltr" /\ langPrev1[1].page.dir = "rtl"

(***************************************************************************)
(* RegistrationForm                                                        *)
(*                                                                         *)
(* handleSubmit runs to its first await (the POST), and is resumed by the  *)
(* response or the rejection; after a non-success response it awaits       *)
(* response.json() and is resumed once more.  The code itself does not     *)
(* refuse a submit event while a call is in flight, so calls may overlap.  *)
(***************************************************************************)
SendingLabel == "Sending..."

ThanksAlert == <<"Thank you! Your details have been saved.">>

Undefined == "<undefined>"

\* what a JSON error body may carry as its detail
Details == {"Invalid email", "Email already registered", "", Undefined}

\* faulty variant: the server's detail is dropped
ErrorMessage_Generic(detail) == "Submission failed"

\* errorData.detail || 'Submission failed'
ErrorMessage(detail) ==
    IF detail # "" /\ detail # Undefined THEN detail ELSE "Submission failed"

\* the catch block's alert
ErrorAlert(message) ==
    <<"Error: ", message, "\n\nPlease ensure the backend server is running.">>

\* faulty variant: the finally block leaves the transient label
RestoredLabel_Transient(originalText) == SendingLabel

\* the finally block: submitBtn.textContent = originalText
RestoredLabel(originalText) == originalText

InFlight(c) == calls[c].pc \in {"awaitFetch", "awaitJson"}

\* the user fills in the form
TypeFields ==
    /\ \E v \in {[name |-> "Ann", email |-> "ann@example.com", phone |-> "050"],
                 [name |-> "Ann", email |-> "not-an-email", phone |-> "050"]} :
          formValues' = v
    /\ UNCHANGED <<btnDisabled, btnLabel, calls, alerts>>
    /\ UNCHANGED <<headerVars, carouselVars, langVars, adminVars>>

\* handleSubmit up to `await fetch(...)`
HandleSubmit ==
    /\ Len(calls) < MaxSubmits
    /\ btnDisabled' = TRUE
    /\ btnLabel' = SendingLabel
    /\ calls' = Append(calls,
          [pc |-> "awaitFetch", originalText |-> btnLabel, formData |-> formValues,
           startDisabled |-> btnDisabled', startLabel |-> btnLabel',
           outcome |-> "pending", detail |-> Undefined, shown |-> <<>>,
           valuesBefore |-> FormDefaults, valuesAfter |-> FormDefaults,
           endDisabled |-> FALSE, endLabel |-> ""])
    /\ UNCHANGED <<formValues, alerts>>
    /\ UNCHANGED <<headerVars, carouselVars, langVars, adminVars>>

\* the rest of handleSubmit from the point where its outcome is known: the alert of
\* the try or the catch block, form.reset() on success, then the finally block
Finish(c, outcome, detail, alert, reset) ==
    /\ alerts' = Append(alerts, alert)
    /\ formValues' = IF reset THEN FormDefaults ELSE formValues
    /\ btnDisabled' = FALSE
    /\ btnLabel' = RestoredLabel(calls[c].originalText)
    /\ calls' = [calls EXCEPT ![c] =
          [@ EXCEPT !.pc = "done", !.outcome = outcome, !.detail = detail,
                    !.shown = alert,
                    !.valuesBefore = formValues, !.valuesAfter = formValues',
                    !.endDisabled = btnDisabled', !.endLabel = btnLabel']]
    /\ UNCHANGED <<headerVars, carouselVars, langVars, adminVars>>

\* the POST is answered with a success status
FetchOk(c) ==
    /\ calls[c].pc = "awaitFetch"
    /\ Finish(c, "success", Undefined, ThanksAlert, TRUE)

\* the POST is answered with a non-success status: await response.json()
FetchNotOk(c) ==
    /\ calls[c].pc = "awaitFetch"
    /\ calls' = [calls EXCEPT ![c].pc = "awaitJson"]
    /\ UNCHANGED <<formValues, btnDisabled, btnLabel, alerts>>
    /\ UNCHANGED <<headerVars, carouselVars, langVars, adminVars>>

\* fetch rejects (network error)
FetchRejected(c) ==
    /\ calls[c].pc = "awaitFetch"
    /\ Finish(c, "network", Undefined, ErrorAlert("Failed to fetch"), FALSE)

\* the error body parses to an object: throw new Error(errorData.detail || ...)
JsonResolved(c) ==
    /\ calls[c].pc = "awaitJson"
    /\ \E d \in Details :
          Finish(c, "http", d, ErrorAlert(ErrorMessage(d)), FALSE)

\* the error body is no JSON: response.json() rejects with a SyntaxError
JsonRejected(c) ==
    /\ calls[c].pc = "awaitJson"
    /\ Finish(c, "nojson", Undefined, ErrorAlert("Unexpected token < in JSON"), FALSE)

\* the markup (or an earlier language toggle) decides the button's label
InitForm ==
    /\ HeaderIdle /\ CarouselIdle /\ LangIdle /\ AdminIdle
    /\ formValues = FormDefaults
    /\ btnDisabled = FALSE
    /\ btnLabel \in {"Subscribe", "he: Subscribe"}
    /\ calls = <<>>
    /\ alerts = <<>>

NextForm ==
    \/ TypeFields
    \/ HandleSubmit
    \/ \E c \in DOMAIN calls :
          \/ FetchOk(c)
          \/ FetchNotOk(c)
          \/ FetchRejected(c)
          \/ JsonResolved(c)
          \/ JsonRejected(c)

SpecForm == InitForm /\ [][NextForm]_vars

\* C4: every handleSubmit call whose request completes (success, non-success with or
\* without a JSON body, network error) ends with the submit button enabled and
\* showing the label it had when the call started; the call disables it and shows the
\* transient label when it starts, and the button is disabled with the transient label
\* only while a request is in flight.
C4_ButtonRestored ==
    /\ \A c \in DOMAIN calls :
          /\ calls[c].startDisabled /\ calls[c].startLabel = "Sending..."
          /\ calls[c].pc = "done" =>
                (~calls[c].endDisabled /\ calls[c].endLabel = calls[c].originalText)
    /\ btnDisabled => (btnLabel = "Sending..." /\ \E c \in DOMAIN calls : InFlight(c))
    /\ (\A c \in DOMAIN calls : calls[c].pc = "done") => ~btnDisabled

\* a call answered with a non-success status and no JSON body has completed on a page
\* whose button said "he: Subscribe"
C4_Witness ==
    \E c \in DOMAIN calls :
        /\ calls[c].pc = "done" /\ calls[c].outcome = "nojson"
        /\ calls[c].originalText = "he: Subscribe"
        /\ btnLabel = "he: Subscribe" /\ ~btnDisabled

\* C5: a non-success answer whose body carries a detail string makes handleSubmit
\* show that string to the user and leave the form fields as they are; the form is
\* reset only by a call that got a success answer.
C5_DetailShown ==
    \A c \in DOMAIN calls :
        calls[c].pc = "done" =>
            /\ (calls[c].outcome = "http" /\ calls[c].detail \notin {"", Undefined}) =>
                  /\ calls[c].shown = <<"Error: ", calls[c].detail,
                                        "\n\nPlease ensure the backend server is running.">>
                  /\ alerts # <<>>
                  /\ \E k \in DOMAIN alerts : alerts[k] = calls[c].shown
                  /\ calls[c].valuesAfter = calls[c].valuesBefore
            /\ calls[c].valuesAfter # calls[c].valuesBefore => calls[c].outcome = "success"
            /\ calls[c].outcome = "success" => calls[c].valuesAfter = FormDefaults

\* the 400 / "Invalid email" case on a filled-in form
C5_Witness ==
    \E c \in DOMAIN calls :
        /\ calls[c].pc = "done" /\ calls[c].outcome = "http"
        /\ calls[c].detail = "Invalid email"
        /\ calls[c].valuesAfter.email = "not-an-email"
        /\ formValues.email = "not-an-email"

(***************************************************************************)
(* AdminDashboard                                                          *)
(*                                                                         *)
(* Every request is answered by the server at one step and resumes the     *)
(* awaiting function at a later one, so answers may reach the page in any  *)
(* order.  Requests are numbered in the order they were started.           *)
(***************************************************************************)
Statuses == {"new", "contacted", "converted", "closed"}

CreatedAts == {"2024-01-01", "2024-06-01", "2023-12-31T23:59:59Z"}

\* new Date(createdAt) as a number, in seconds since the epoch
DateParse(createdAt) ==
    CASE createdAt = "2024-01-01" -> 1704067200
      [] createdAt = "2024-06-01" -> 1717200000
      [] createdAt = "2023-12-31T23:59:59Z" -> 1704067199

\* new Date(createdAt).toLocaleDateString(), in a UTC en-US browser
ToLocaleDateString(createdAt) ==
    CASE createdAt = "2024-01-01" -> "1/1/2024"
      [] createdAt = "2024-06-01" -> "6/1/2024"
      [] createdAt = "2023-12-31T23:59:59Z" -> "12/31/2023"

\* faulty variant: the comparator's operands are swapped (oldest first)
Compare_Ascending(a, b) == DateParse(a.createdAt) - DateParse(b.createdAt)

\* the comparator of leads.sort: negative when a goes before b
Compare(a, b) == DateParse(b.createdAt) - DateParse(a.createdAt)

\* x put into a sorted sequence, behind everything it does not have to precede
InsertSorted(sorted, x) ==
    LET before == {k \in DOMAIN sorted : Compare(x, sorted[k]) < 0}
        at == IF before = {} THEN Len(sorted) + 1
              ELSE CHOOSE k \in before : \A j \in before : k <= j
    IN  SubSeq(sorted, 1, at - 1) \o <<x>> \o SubSeq(sorted, at, Len(sorted))

RECURSIVE SortPrefix(_, _)
SortPrefix(leads, n) ==
    IF n = 0 THEN <<>> ELSE InsertSorted(SortPrefix(leads, n - 1), leads[n])

\* leads.sort(comparator): Array.prototype.sort is stable
SortLeads(leads) == SortPrefix(leads, Len(leads))

\* the <tr> built for a lead: date cell, badge, and the select preset to the status
RowOf(lead) ==
    [id |-> lead.id, createdAt |-> lead.createdAt,
     date |-> ToLocaleDateString(lead.createdAt),
     badge |-> lead.status, select |-> lead.status]

\* renderLeads
RenderLeads(leads) ==
    LET sorted == SortLeads(leads)
    IN  [i \in DOMAIN sorted |-> RowOf(sorted[i])]

\* fetchLeads up to `await fetch(...)`
StartedGet == [st |-> "sent", body |-> <<>>]

\* faulty variant: the catch block reports success too
UpdateStatusReturn_AlwaysTrue(ok) == TRUE

\* updateStatus: true after a success answer, false from the catch block
UpdateStatusReturn(ok) == ok

\* the server answers GET /api/leads with the list as it is now
ServeGetOk(g) ==
    /\ gets[g].st = "sent"
    /\ gets' = [gets EXCEPT ![g] = [st |-> "ok", body |-> serverLeads]]
    /\ UNCHANGED <<serverLeads, tableKind, rows, tableFrom, patches, adminAlerts, changeLimit>>
    /\ UNCHANGED <<headerVars, carouselVars, langVars, formVars>>

\* the GET fails: fetch rejects, or the body is no JSON array
ServeGetFail(g) ==
    /\ gets[g].st = "sent"
    /\ gets' = [gets EXCEPT ![g].st = "fail"]
    /\ UNCHANGED <<serverLeads, tableKind, rows, tableFrom, patches, adminAlerts, changeLimit>>
    /\ UNCHANGED <<headerVars, carouselVars, langVars, formVars>>

\* fetchLeads resumes with the list: renderLeads(leads)
DeliverGetOk(g) ==
    /\ gets[g].st = "ok"
    /\ tableKind' = "rows"
    /\ rows' = RenderLeads(gets[g].body)
    /\ tableFrom' = g
    /\ gets' = [gets EXCEPT ![g].st = "done"]
    /\ UNCHANGED <<serverLeads, patches, adminAlerts, changeLimit>>
    /\ UNCHANGED <<headerVars, carouselVars, langVars, formVars>>

\* fetchLeads resumes in its catch block: the inline error row
DeliverGetFail(g) ==
    /\ gets[g].st = "fail"
    /\ tableKind' = "error"
    /\ rows' = <<>>
    /\ tableFrom' = g
    /\ gets' = [gets EXCEPT ![g].st = "done"]
    /\ UNCHANGED <<serverLeads, patches, adminAlerts, changeLimit>>
    /\ UNCHANGED <<headerVars, carouselVars, langVars, formVars>>

\* the user picks another value in row r's select: the change handler calls
\* updateStatus(lead.id, e.target.value), which runs to `await fetch(...)`
ChangeStatus(r, newStatus) ==
    /\ tableKind = "rows"
    /\ Len(patches) < changeLimit
    /\ rows[r].select # newStatus
    /\ rows' = [rows EXCEPT ![r].select = newStatus]
    /\ patches' = Append(patches,
          [id |-> rows[r].id, status |-> newStatus, st |-> "sent",
           row |-> r, rendering |-> tableFrom, fetches |-> 0])
    /\ UNCHANGED <<serverLeads, tableKind, tableFrom, gets, adminAlerts, changeLimit>>
    /\ UNCHANGED <<headerVars, carouselVars, langVars, formVars>>

\* the server applies the PATCH
ServePatchOk(p) ==
    /\ patches[p].st = "sent"
    /\ serverLeads' = [i \in DOMAIN serverLeads |->
          IF serverLeads[i].id = patches[p].id
            THEN [serverLeads[i] EXCEPT !.status = patches[p].status]
            ELSE serverLeads[i]]
    /\ patches' = [patches EXCEPT ![p].st = "ok"]
    /\ UNCHANGED <<tableKind, rows, tableFrom, gets, adminAlerts, changeLimit>>
    /\ UNCHANGED <<headerVars, carouselVars, langVars, formVars>>

\* the PATCH fails: a non-success status, or fetch rejects
ServePatchFail(p) ==
    /\ patches[p].st = "sent"
    /\ patches' = [patches EXCEPT ![p].st = "fail"]
    /\ UNCHANGED <<serverLeads, tableKind, rows, tableFrom, gets, adminAlerts, changeLimit>>
    /\ UNCHANGED <<headerVars, carouselVars, langVars, formVars>>

\* updateStatus resumes and returns; the change handler resumes with its result and
\* calls fetchLeads() when it is true
DeliverPatch(p) ==
    /\ patches[p].st \in {"ok", "fail"}
    /\ LET ok == patches[p].st = "ok"
           success == UpdateStatusReturn(ok)
       IN  /\ adminAlerts' = IF ok THEN adminAlerts ELSE adminAlerts + 1
           /\ gets' = IF success THEN Append(gets, StartedGet) ELSE gets
           /\ patches' = [patches EXCEPT ![p] =
                 [@ EXCEPT !.st = IF ok THEN "doneOk" ELSE "doneFail",
                           !.fetches = Len(gets') - Len(gets)]]
    /\ UNCHANGED <<serverLeads, tableKind, rows, tableFrom, changeLimit>>
    /\ UNCHANGED <<headerVars, carouselVars, langVars, formVars>>

InitialStatuses == {"new", "contacted"}

\* the list GET /api/leads would return when the page loads
LeadLists(maxLeads, createdAts, statuses) ==
    UNION {{[i \in 1..n |-> [id |-> i, createdAt |-> created[i], status |-> status[i]]] :
              created \in [1..n -> createdAts], status \in [1..n -> statuses]} :
           n \in 0..maxLeads}

\* the constructor found the table and init() has started the first fetchLeads
AdminStarted ==
    /\ HeaderIdle /\ CarouselIdle /\ LangIdle /\ FormIdle
    /\ tableKind = "markup"
    /\ rows = <<>>
    /\ tableFrom = 0
    /\ patches = <<>>
    /\ gets = <<StartedGet>>
    /\ adminAlerts = 0

\* sessions that look at lists of every shape and change little
InitAdmin ==
    /\ AdminStarted
    /\ serverLeads \in LeadLists(MaxLeads, CreatedAts, InitialStatuses)
    /\ changeLimit = MaxListChanges

\* sessions that make several status changes on a short list
InitAdminRace ==
    /\ AdminStarted
    /\ serverLeads \in LeadLists(MaxRaceLeads, {"2024-06-01"}, InitialStatuses)
    /\ changeLimit = MaxChanges

NextAdmin ==
    \/ \E g \in DOMAIN gets :
          \/ ServeGetOk(g)
          \/ ServeGetFail(g)
          \/ DeliverGetOk(g)
          \/ DeliverGetFail(g)
    \/ \E r \in DOMAIN rows, v \in Statuses : ChangeStatus(r, v)
    \/ \E p \in DOMAIN patches :
          \/ ServePatchOk(p)
          \/ ServePatchFail(p)
          \/ DeliverPatch(p)

SpecAdmin == InitAdmin /\ [][NextAdmin]_vars

SpecAdminRace == InitAdminRace /\ [][NextAdmin]_vars

DoneOk == {p \in DOMAIN patches : patches[p].st = "doneOk"}

\* C6: an updateStatus call whose PATCH succeeds triggers exactly one further GET of
\* the lead list, and one whose PATCH fails triggers none: each finished call started
\* one or no fetch accordingly, and the GETs made are the initial one plus one per
\* successful call.
C6_OneRefetch ==
    /\ \A p \in DOMAIN patches :
          /\ patches[p].st = "doneOk" => patches[p].fetches = 1
          /\ patches[p].st # "doneOk" => patches[p].fetches = 0
    /\ Len(gets) = 1 + Cardinality(DoneOk)

\* one status change went through and one failed: two GETs in all
C6_Witness ==
    /\ \E p \in DOMAIN patches : patches[p].st = "doneOk" /\ patches[p].fetches = 1
    /\ \E p \in DOMAIN patches : patches[p].st = "doneFail" /\ patches[p].fetches = 0
    /\ Len(gets) = 2

\* p is the only status change made on its row in the rendering it was made in
OnlyChangeOfRow(p) ==
    \A q \in DOMAIN patches :
        (patches[q].row = patches[p].row /\ patches[q].rendering = patches[p].rendering)
            => q = p

\* C7: when the PATCH of a status change fails the user is alerted and the table is
\* left as it was before the change: no re-fetch, and the row's badge and its select
\* still show the lead's prior status (as long as the table has not been rendered
\* again and the row was not changed a second time).
C7_TableUnchangedOnFailure ==
    \A p \in DOMAIN patches :
        patches[p].st = "doneFail" =>
            /\ adminAlerts >= 1
            /\ patches[p].fetches = 0
            /\ (tableKind = "rows" /\ tableFrom = patches[p].rendering
                    /\ OnlyChangeOfRow(p)) =>
                  LET prior == CHOOSE l \in {gets[tableFrom].body[i] :
                                              i \in DOMAIN gets[tableFrom].body} :
                                   l.id = patches[p].id
                  IN  /\ rows[patches[p].row].badge = prior.status
                      /\ rows[patches[p].row].select = prior.status

\* C8: after a successful fetchLeads the table has exactly one row per lead of the
\* response and the rows are ordered by createdAt descending: a row's creation time
\* is greater than or equal to that of every row below it.
C8_SortedRows ==
    tableKind = "rows" =>
        LET body == gets[tableFrom].body
        IN  /\ Len(rows) = Len(body)
            /\ \A i \in DOMAIN body :
                  Cardinality({k \in DOMAIN rows : rows[k].id = body[i].id}) = 1
            /\ \A i, j \in DOMAIN rows :
                  i < j => DateParse(rows[i].createdAt) >= DateParse(rows[j].createdAt)

\* the response listed a January lead before a June lead; the June lead is on top
C8_Witness ==
    /\ tableKind = "rows" /\ Len(rows) = 2
    /\ gets[tableFrom].body[1].createdAt = "2024-01-01"
    /\ gets[tableFrom].body[2].createdAt = "2024-06-01"
    /\ rows[1].createdAt = "2024-06-01" /\ rows[1].id = 2
    /\ rows[2].createdAt = "2024-01-01" /\ rows[2].id = 1

\* C10: when fetchLeads calls overlap, once all of them have completed the table
\* shows the response of the one started last.
C10_LatestFetchWins ==
    (Len(gets) >= 2 /\ \A g \in DOMAIN gets : gets[g].st = "done")
        => tableFrom = Len(gets)

====
